---- MODULE Spec2Model ----
(***************************************************************************)
(* Model of pyrates/backend/computegraph.py: the ComputeGraph class (a     *)
(* networkx MultiDiGraph whose nodes carry attribute dictionaries), its    *)
(* equation registry, constant folding, pruning and unique naming.         *)
(*                                                                         *)
(* A node's attribute dictionary is a record: the keys the methods read    *)
(* are 'vtype', 'func', 'value' and 'node'.  A key that is missing is      *)
(* modelled by NoKey (vtype), func = FALSE, has_value = FALSE and          *)
(* NoObj (node); reading a missing key raises KeyError as in Python.       *)
(* Exceptions are values: every operation returns a record with an err     *)
(* field, and the graph it returns is the graph as the exception left it.  *)
(*                                                                         *)
(* Spec      the graph grown from empty by add_var and add_op              *)
(* SpecGraph a finished acyclic dependency graph (nodes with 'vtype',      *)
(*           'func', 'value') under add_var_update, eval_node,             *)
(*           eval_subgraph, eval_graph, _prune and compile                 *)
(* SpecPack  graphs with differential and algebraic records under compile, *)
(*           _process_var_update, to_func, _to_str and                     *)
(*           _generate_update_equations                                    *)
(* SpecPrune finished graphs with a protected set of nodes under _prune    *)
(* SpecReg   the equation registry under repeated add_var_update           *)
(* SpecSum   the graph sum = a + b with the record c <- sum under          *)
(*           eval_node, eval_subgraph, eval_graph, _prune, compile and     *)
(*           _node_to_expr                                                 *)
(* SpecFunc  the graph grown from empty by add_var and add_op, with       *)
(*           records, under to_func                                        *)
(* SpecNode  variables with a declared shape under ComputeNode.reshape and *)
(*           ComputeNode.squeeze                                           *)
(***************************************************************************)
EXTENDS Integers, Sequences, FiniteSets, TLC

VARIABLES nodes, order, edges, var_updates, eq_nodes, last, pre, log, pack

vars == <<nodes, order, edges, var_updates, eq_nodes, last, pre, log, pack>>

\* ---------------------------------------------------------------- bounds
MaxNodes == 3
MaxEqs == 1
MaxCalls == 3
MaxDEs == 2

\* ------------------------------------------------------------ node dicts
NoKey == "<absent>"
NoErr == "none"

NoObj == [cls |-> "none", vtype |-> NoKey, value |-> 0, shape |-> <<>>, vshape |-> <<>>]

\* attribute dictionary of a node that the instantiation layer supplies.
\* The key 'symbol' is there; the key 'expr' is there on an operation node
\* (has_expr), and expr is the set of symbols the expression is written in:
\* the symbols of the inputs the operation was created with.
AttrDict(vtype, func, value, expr) ==
    [vtype |-> vtype, func |-> func, has_value |-> TRUE, value |-> value,
     node |-> NoObj, has_symbol |-> TRUE, has_expr |-> func, expr |-> expr]

\* attribute dictionary networkx creates for a node named only by an edge
BareDict ==
    [vtype |-> NoKey, func |-> FALSE, has_value |-> FALSE, value |-> 0,
     node |-> NoObj, has_symbol |-> FALSE, has_expr |-> FALSE, expr |-> {}]

\* the graph as one value
MkGraph(ns, ord, es) == [nodes |-> ns, order |-> ord, edges |-> es]

Graph == MkGraph(nodes, order, edges)

NodeSet(g) == DOMAIN g.nodes

\* ------------------------------------------------------- sequence helpers
RECURSIVE SeqFilter(_, _)
SeqFilter(s, keep) ==
    IF s = <<>> THEN <<>>
    ELSE IF Head(s) \in keep THEN <<Head(s)>> \o SeqFilter(Tail(s), keep)
    ELSE SeqFilter(Tail(s), keep)

Range(s) == {s[i] : i \in DOMAIN s}

\* ----------------------------------------------------- networkx queries
PredSet(g, n) == {e[1] : e \in {x \in g.edges : x[2] = n}}

MinKey(g, u, n) ==
    LET ks == {e[3] : e \in {x \in g.edges : x[1] = u /\ x[2] = n}}
    IN CHOOSE k \in ks : \A j \in ks : k <= j

\* MultiDiGraph.predecessors: the distinct sources of the edges into n, in
\* the order in which they first became predecessors
RECURSIVE SortPreds(_, _, _)
SortPreds(g, n, left) ==
    IF left = {} THEN <<>>
    ELSE LET u == CHOOSE x \in left : \A y \in left : MinKey(g, x, n) <= MinKey(g, y, n)
         IN <<u>> \o SortPreds(g, n, left \ {u})

predecessors(g, n) == SortPreds(g, n, PredSet(g, n))

out_degree(g, n) == Cardinality({e \in g.edges : e[1] = n})

in_degree(g, n) == Cardinality({e \in g.edges : e[2] = n})

\* [node for node, out_degree in self.out_degree if out_degree == 0]
out_nodes(g) == SeqFilter(g.order, {n \in NodeSet(g) : out_degree(g, n) = 0})

\* MultiDiGraph.remove_node on a node of the graph
remove_node(g, n) ==
    MkGraph([m \in NodeSet(g) \ {n} |-> g.nodes[m]],
            SeqFilter(g.order, NodeSet(g) \ {n}),
            {e \in g.edges : e[1] # n /\ e[2] # n})

\* recursion budget: a call chain longer than the node count is a cycle,
\* which Python ends with RecursionError
Depth(g) == Cardinality(NodeSet(g)) + 1

\* the opaque callable of an operation node: positional, order-sensitive
RECURSIVE Weighted(_, _)
Weighted(args, i) ==
    IF i > Len(args) THEN 0 ELSE i * args[i] + Weighted(args, i + 1)

Func(args) == 1 + Weighted(args, 1)

\* ------------------------------------------------------------ evaluation
Raise(g, e) == [g |-> g, err |-> e, val |-> 0]

Return(g, v) == [g |-> g, err |-> NoErr, val |-> v]

RECURSIVE eval_node(_, _, _)
RECURSIVE eval_nodes(_, _, _)

\* ComputeGraph.eval_nodes: [self.eval_node(n) for n in nodes]; val is the
\* list of results, the first exception ends the comprehension
eval_nodes(g, ns, d) ==
    IF ns = <<>> THEN [g |-> g, err |-> NoErr, val |-> <<>>]
    ELSE LET r == eval_node(g, Head(ns), d)
         IN IF r.err # NoErr THEN [g |-> g, err |-> r.err, val |-> <<>>]
            ELSE LET rest == eval_nodes(g, Tail(ns), d)
                 IN IF rest.err # NoErr THEN rest
                    ELSE [g |-> g, err |-> NoErr, val |-> <<r.val>> \o rest.val]

\* eval_node that keeps the result of the callable in the node it evaluated
eval_node_storing(g, n, d) ==
    IF d = 0 THEN Raise(g, "RecursionError")
    ELSE IF n \notin NodeSet(g) THEN Raise(g, "NetworkXError")
    ELSE LET inputs == eval_nodes(g, predecessors(g, n), d - 1)
         IN IF inputs.err # NoErr THEN Raise(g, inputs.err)
            ELSE IF g.nodes[n].func
                 THEN Return([g EXCEPT !.nodes[n].value = Func(inputs.val)],
                             Func(inputs.val))
            ELSE IF ~g.nodes[n].has_value THEN Raise(g, "KeyError")
            ELSE Return(g, g.nodes[n].value)

\* ComputeGraph.eval_node
eval_node(g, n, d) ==
    IF d = 0 THEN Raise(g, "RecursionError")
    ELSE IF n \notin NodeSet(g) THEN Raise(g, "NetworkXError")
    ELSE LET inputs == eval_nodes(g, predecessors(g, n), d - 1)
         IN IF inputs.err # NoErr THEN Raise(g, inputs.err)
            ELSE IF g.nodes[n].func THEN Return(g, Func(inputs.val))
            ELSE IF ~g.nodes[n].has_value THEN Raise(g, "KeyError")
            ELSE Return(g, g.nodes[n].value)

RECURSIVE eval_subgraph(_, _, _)
RECURSIVE FoldInputs(_, _, _, _)

\* the loop of eval_subgraph over the list input_nodes, taken before the loop
FoldInputs(g, input_nodes, inputs, d) ==
    IF input_nodes = <<>> THEN [g |-> g, err |-> NoErr, val |-> inputs]
    ELSE LET inp == Head(input_nodes)
             r == eval_subgraph(g, inp, d)
         IN IF r.err # NoErr THEN [g |-> r.g, err |-> r.err, val |-> inputs]
            ELSE FoldInputs(remove_node(r.g, inp), Tail(input_nodes),
                            Append(inputs, r.val), d)

\* eval_subgraph that stores the result of the callable in the node also
\* when the node has no inputs
eval_subgraph_storing(g, n, d) ==
    IF d = 0 THEN Raise(g, "RecursionError")
    ELSE IF n \notin NodeSet(g) THEN Raise(g, "NetworkXError")
    ELSE LET l == FoldInputs(g, predecessors(g, n), <<>>, d - 1)
         IN IF l.err # NoErr THEN Raise(l.g, l.err)
            ELSE IF n \notin NodeSet(l.g) THEN Raise(l.g, "KeyError")
            ELSE Return([l.g EXCEPT !.nodes[n].value = Func(l.val),
                                    !.nodes[n].has_value = TRUE],
                        Func(l.val))

\* ComputeGraph.eval_subgraph
eval_subgraph(g, n, d) ==
    IF d = 0 THEN Raise(g, "RecursionError")
    ELSE IF n \notin NodeSet(g) THEN Raise(g, "NetworkXError")
    ELSE LET l == FoldInputs(g, predecessors(g, n), <<>>, d - 1)
         IN IF l.err # NoErr THEN Raise(l.g, l.err)
            ELSE IF n \notin NodeSet(l.g) THEN Raise(l.g, "KeyError")
            ELSE IF l.val # <<>>
                 THEN IF ~l.g.nodes[n].func THEN Raise(l.g, "KeyError")
                      ELSE LET v == Func(l.val)
                               g2 == [l.g EXCEPT !.nodes[n].value = v,
                                                 !.nodes[n].has_value = TRUE]
                           IN Return(g2, v)
                 ELSE IF ~l.g.nodes[n].has_value THEN Raise(l.g, "KeyError")
                 ELSE Return(l.g, l.g.nodes[n].value)

\* ComputeGraph.remove_subgraph.  The for loop runs over the live iterator
\* that predecessors(n) returns; removing inp deletes an entry of the
\* dictionary under iteration, so the step after the first removal raises
\* RuntimeError (dictionary changed size during iteration).
RECURSIVE remove_subgraph(_, _, _)
remove_subgraph(g, n, d) ==
    IF d = 0 THEN Raise(g, "RecursionError")
    ELSE IF n \notin NodeSet(g) THEN Raise(g, "NetworkXError")
    ELSE IF predecessors(g, n) = <<>> THEN Return(remove_node(g, n), 0)
    ELSE LET r == remove_subgraph(g, Head(predecessors(g, n)), d - 1)
         IN IF r.err # NoErr THEN r ELSE Raise(r.g, "RuntimeError")

\* first loop of _prune, over the childless nodes listed before the loop
RECURSIVE PruneConstants(_, _, _)
PruneConstants(g, ns, eq) ==
    IF ns = <<>> THEN Return(g, 0)
    ELSE LET n == Head(ns)
         IN IF n \notin NodeSet(g) THEN Raise(g, "KeyError")
            ELSE IF g.nodes[n].vtype = NoKey THEN Raise(g, "KeyError")
            ELSE IF g.nodes[n].vtype = "constant" /\ n \notin eq
                 THEN LET r == remove_subgraph(g, n, Depth(g))
                      IN IF r.err # NoErr THEN r
                         ELSE PruneConstants(r.g, Tail(ns), eq)
                 ELSE PruneConstants(g, Tail(ns), eq)

\* second loop of _prune
RECURSIVE PruneUnconnected(_, _, _)
PruneUnconnected(g, ns, eq) ==
    IF ns = <<>> THEN Return(g, 0)
    ELSE LET n == Head(ns)
         IN IF in_degree(g, n) = 0 /\ n \notin eq
            THEN PruneUnconnected(remove_node(g, n), Tail(ns), eq)
            ELSE PruneUnconnected(g, Tail(ns), eq)

\* _prune without its second loop
prune_constants_only(g, eq) == PruneConstants(g, out_nodes(g), eq)

\* ComputeGraph._prune
prune(g, eq) ==
    LET r == PruneConstants(g, out_nodes(g), eq)
    IN IF r.err # NoErr THEN r
       ELSE PruneUnconnected(r.g, out_nodes(r.g), eq)

\* ComputeGraph.compile.  The inner loop runs over the live iterator of
\* predecessors(node): when folding inp removed another predecessor of node,
\* the next step raises RuntimeError.  Line 274 then names G, which no scope
\* defines, so the first childless node ends the call with NameError; only
\* a graph without childless nodes reaches _prune.
RECURSIVE CompileInputs(_, _, _, _)
CompileInputs(g, node, inps, size) ==
    IF Cardinality(PredSet(g, node)) # size THEN Raise(g, "RuntimeError")
    ELSE IF inps = <<>> THEN Return(g, 0)
    ELSE LET inp == Head(inps)
         IN IF g.nodes[inp].vtype = NoKey THEN Raise(g, "KeyError")
            ELSE IF g.nodes[inp].vtype = "constant"
                 THEN LET r == eval_subgraph(g, inp, Depth(g))
                      IN IF r.err # NoErr THEN Raise(r.g, r.err)
                         ELSE CompileInputs(r.g, node, Tail(inps), size)
                 ELSE CompileInputs(g, node, Tail(inps), size)

compile(g, eq) ==
    IF out_nodes(g) = <<>> THEN prune(g, eq)
    ELSE LET node == Head(out_nodes(g))
             r == CompileInputs(g, node, predecessors(g, node),
                                Cardinality(PredSet(g, node)))
         IN IF r.err # NoErr THEN r ELSE Raise(r.g, "NameError")

\* --------------------------------------------------------- the translator
\* expr.replace(expr_old, expr_new) on an expression given by its symbols
Replace(expr, expr_old, expr_new) ==
    IF expr_old \in expr THEN (expr \ {expr_old}) \cup expr_new ELSE expr

\* the loop of _node_to_expr over expr_info.items(): info is the list of
\* <<symbol, args, expression>> of the predecessors; val is the pair
\* (expr_args, expr)
RECURSIVE Substitute(_, _, _)
Substitute(info, expr_args, expr) ==
    IF info = <<>> THEN [args |-> expr_args, expr |-> expr]
    ELSE Substitute(Tail(info), expr_args \o Head(info)[2],
                    Replace(expr, Head(info)[1], Head(info)[3]))

RECURSIVE node_to_expr(_, _, _)
RECURSIVE ExprInfo(_, _, _)

\* the dictionary expr_info of _node_to_expr: the key is the 'symbol' of the
\* predecessor (the symbol of a node is its name), the value what the
\* translator returns for it
ExprInfo(g, inps, d) ==
    IF inps = <<>> THEN [g |-> g, err |-> NoErr, val |-> <<>>]
    ELSE IF ~g.nodes[Head(inps)].has_symbol THEN [g |-> g, err |-> "KeyError", val |-> <<>>]
    ELSE LET r == node_to_expr(g, Head(inps), d)
         IN IF r.err # NoErr THEN [g |-> g, err |-> r.err, val |-> <<>>]
            ELSE LET rest == ExprInfo(g, Tail(inps), d)
                 IN IF rest.err # NoErr THEN rest
                    ELSE [g |-> g, err |-> NoErr,
                          val |-> <<<<Head(inps), r.val.args, r.val.expr>>>> \o rest.val]

\* the except branch of _node_to_expr: a KeyError raised anywhere in the try
\* block, by this node or by the translation of an input, ends here
ExprLeaf(g, n) ==
    IF n \notin NodeSet(g) THEN Raise(g, "KeyError")
    ELSE IF g.nodes[n].vtype = NoKey \/ ~g.nodes[n].has_symbol THEN Raise(g, "KeyError")
    ELSE Return(g, [args |-> IF g.nodes[n].vtype \in {"constant", "input"}
                             THEN <<n>> ELSE <<>>,
                    expr |-> {n}])

\* ComputeGraph._node_to_expr.  The renaming of backend functions (the loop
\* over kwargs) changes no symbol.
node_to_expr(g, n, d) ==
    IF d = 0 THEN Raise(g, "RecursionError")
    ELSE IF n \notin NodeSet(g) THEN ExprLeaf(g, n)
    ELSE IF ~g.nodes[n].has_expr THEN ExprLeaf(g, n)
    ELSE LET info == ExprInfo(g, predecessors(g, n), d - 1)
         IN IF info.err = "KeyError" THEN ExprLeaf(g, n)
            ELSE IF info.err # NoErr THEN Raise(g, info.err)
            ELSE Return(g, Substitute(info.val, <<>>, g.nodes[n].expr))

\* ------------------------------------------------------ equation registry
\* assignment to a key of an insertion-ordered dict
DictSet(dct, k, v) ==
    IF \E i \in DOMAIN dct : dct[i][1] = k
    THEN [i \in DOMAIN dct |-> IF dct[i][1] = k THEN <<k, v>> ELSE dct[i]]
    ELSE Append(dct, <<k, v>>)

DictKeys(dct) == [i \in DOMAIN dct |-> dct[i][1]]

DictValues(dct) == [i \in DOMAIN dct |-> dct[i][2]]

\* the loop of eval_graph over var_updates['non-DEs'].values()
RECURSIVE FoldAll(_, _)
FoldAll(g, ns) ==
    IF ns = <<>> THEN Return(g, 0)
    ELSE LET r == eval_subgraph(g, Head(ns), Depth(g))
         IN IF r.err # NoErr THEN r ELSE FoldAll(r.g, Tail(ns))

\* ComputeGraph.eval_graph; val is the list eval_nodes returns
eval_graph(g, vu) ==
    LET r == FoldAll(g, DictValues(vu.nonDEs))
    IN IF r.err # NoErr THEN [g |-> r.g, err |-> r.err, val |-> <<>>]
       ELSE LET e == eval_nodes(r.g, DictValues(vu.DEs), Depth(r.g))
            IN [g |-> r.g, err |-> e.err, val |-> e.val]

\* ---------------------------------------------------------------- actions
Result(op, arg, r) == [op |-> op, arg |-> arg, err |-> r.err, val |-> r.val]

SetGraph(g) ==
    /\ nodes' = g.nodes
    /\ order' = g.order
    /\ edges' = g.edges
    /\ pre' = Graph

\* add_var_update with _eq_nodes assigned the two names, where the code
\* extends the list
add_var_update_assigning(vu, eq, var, update, differential_equation) ==
    [var_updates |-> IF differential_equation
                     THEN [vu EXCEPT !.DEs = DictSet(@, var, update)]
                     ELSE [vu EXCEPT !.nonDEs = DictSet(@, var, update)],
     eq_nodes |-> {var, update}]

\* ComputeGraph.add_var_update: the two mappings and _eq_nodes after the call
add_var_update(vu, eq, var, update, differential_equation) ==
    [var_updates |-> IF differential_equation
                     THEN [vu EXCEPT !.DEs = DictSet(@, var, update)]
                     ELSE [vu EXCEPT !.nonDEs = DictSet(@, var, update)],
     eq_nodes |-> eq \cup {var, update}]

AddVarUpdate(var, update, differential_equation) ==
    /\ Len(var_updates.DEs) + Len(var_updates.nonDEs) < MaxEqs
    /\ var_updates' = add_var_update(var_updates, eq_nodes, var, update,
                                     differential_equation).var_updates
    /\ eq_nodes' = add_var_update(var_updates, eq_nodes, var, update,
                                  differential_equation).eq_nodes
    /\ last' = [op |-> "add_var_update", arg |-> var, err |-> NoErr, val |-> 0]
    /\ pre' = Graph
    /\ UNCHANGED <<nodes, order, edges, log, pack>>

EvalNode(n) ==
    LET r == eval_node(Graph, n, Depth(Graph))
    IN /\ SetGraph(r.g)
       /\ last' = Result("eval_node", n, r)
       /\ UNCHANGED <<var_updates, eq_nodes, log, pack>>

EvalSubgraph(n) ==
    LET r == eval_subgraph(Graph, n, Depth(Graph))
    IN /\ SetGraph(r.g)
       /\ last' = Result("eval_subgraph", n, r)
       /\ UNCHANGED <<var_updates, eq_nodes, log, pack>>

EvalGraph ==
    LET r == eval_graph(Graph, var_updates)
    IN /\ SetGraph(r.g)
       /\ last' = [op |-> "eval_graph", arg |-> 0, err |-> r.err, val |-> Len(r.val)]
       /\ UNCHANGED <<var_updates, eq_nodes, log, pack>>

Prune ==
    LET r == prune(Graph, eq_nodes)
    IN /\ SetGraph(r.g)
       /\ last' = Result("prune", 0, r)
       /\ UNCHANGED <<var_updates, eq_nodes, log, pack>>

Compile ==
    LET r == compile(Graph, eq_nodes)
    IN /\ SetGraph(r.g)
       /\ last' = Result("compile", 0, r)
       /\ UNCHANGED <<var_updates, eq_nodes, log, pack>>

NodeToExpr(n) ==
    LET r == node_to_expr(Graph, n, Depth(Graph))
    IN /\ SetGraph(r.g)
       /\ last' = Result("node_to_expr", n, r)
       /\ UNCHANGED <<var_updates, eq_nodes, log, pack>>

\* ------------------------------------------- graphs handed to the compiler
Ids == 1..MaxNodes

VTypes == {"constant", "input", NoKey}

Kinds == {"constant", "input", "state_var"}

RECURSIVE Acyclic(_, _)
Acyclic(S, E) ==
    IF S = {} THEN TRUE
    ELSE LET src == {n \in S : ~\E u \in S : <<u, n>> \in E}
         IN src # {} /\ Acyclic(S \ src, E)

\* edge keys are the argument positions: the rank of the source among the
\* sources of the same target
Keyed(E) ==
    {<<e[1], e[2], Cardinality({u \in Ids : u < e[1] /\ <<u, e[2]>> \in E})>> : e \in E}

\* a finished dependency graph: operation nodes (those with inputs) carry
\* 'func' and a zero value buffer, leaves carry their value
Supplied(E, vt) ==
    MkGraph([n \in Ids |-> AttrDict(vt[n], \E u \in Ids : <<u, n>> \in E,
                                    IF \E u \in Ids : <<u, n>> \in E THEN 0 ELSE n,
                                    {u \in Ids : <<u, n>> \in E})],
            [i \in Ids |-> i],
            Keyed(E))

EmptyUpdates == [DEs |-> <<>>, nonDEs |-> <<>>]

\* the locals of to_func before its packing loop: no variable extracted, no
\* index range assigned, state vector not allocated
NoPack == [variables |-> <<>>, indices |-> <<>>, old_state_vars |-> <<>>,
           idx |-> 0, allocated |-> FALSE, keys |-> <<>>, emitted |-> <<>>]

InitGraph ==
    /\ \E E \in SUBSET {p \in Ids \X Ids : p[1] # p[2]} :
         /\ Acyclic(Ids, E)
         /\ \E vt \in [Ids -> VTypes] :
              /\ nodes = Supplied(E, vt).nodes
              /\ order = Supplied(E, vt).order
              /\ edges = Supplied(E, vt).edges
    /\ var_updates = EmptyUpdates
    /\ eq_nodes = {}
    /\ last = [op |-> "init", arg |-> 0, err |-> NoErr, val |-> 0]
    /\ pre = Graph
    /\ log = <<>>
    /\ pack = NoPack

NextGraph ==
    \/ \E var \in Ids, update \in Ids, de \in BOOLEAN : AddVarUpdate(var, update, de)
    \/ \E n \in NodeSet(Graph) : EvalNode(n)
    \/ \E n \in NodeSet(Graph) : EvalSubgraph(n)
    \/ EvalGraph
    \/ Prune
    \/ Compile

SpecGraph == InitGraph /\ [][NextGraph]_vars

\* ------------------------------------------------------------ node names
\* A name is the list of its '_'-separated segments: stem holds the segments
\* before a last segment that int() parses, num holds that integer (empty
\* when the last segment is not an integer).  "a" is Name(<<"a">>, <<>>),
\* "a_0" is Name(<<"a">>, <<0>>), "5" is Name(<<>>, <<5>>).
Name(stem, num) == [stem |-> stem, num |-> num]

\* new_label with 1 as the first suffix appended, where the code appends 0
new_label_from1(label) ==
    IF label.num # <<>>
    THEN Name(label.stem, <<label.num[1] + 1>>)
    ELSE Name(label.stem, <<1>>)

\* the next label _generate_unique_label tries: the last segment plus one
\* when int() parses it, the label with "_0" appended when it raises
\* ValueError
new_label(label) ==
    IF label.num # <<>>
    THEN Name(label.stem, <<label.num[1] + 1>>)
    ELSE Name(label.stem, <<0>>)

\* ComputeGraph._generate_unique_label
RECURSIVE generate_unique_label(_, _)
generate_unique_label(g, label) ==
    IF label \in NodeSet(g)
    THEN generate_unique_label(g, new_label(label))
    ELSE label

\* MultiDiGraph.add_node(name, node=obj): a new node gets the dictionary
\* {'node': obj}; on a node of the graph the key 'node' is overwritten
add_node(g, name, obj) ==
    IF name \in NodeSet(g)
    THEN [g EXCEPT !.nodes[name].node = obj]
    ELSE MkGraph([m \in NodeSet(g) \cup {name} |->
                     IF m = name THEN [BareDict EXCEPT !.node = obj] ELSE g.nodes[m]],
                 Append(g.order, name),
                 g.edges)

\* MultiDiGraph.add_edge(u, v, key): an endpoint that is no node of the graph
\* is added with an empty attribute dictionary
add_edge(g, u, v, key) ==
    LET missing == SeqFilter(<<u, v>>, {u, v} \ NodeSet(g))
        new == IF Len(missing) = 2 /\ u = v THEN <<u>> ELSE missing
    IN MkGraph([m \in NodeSet(g) \cup {u, v} |->
                   IF m \in NodeSet(g) THEN g.nodes[m] ELSE BareDict],
               g.order \o new,
               g.edges \cup {<<u, v, key>>})

\* ComputeVar(name, vtype, value, shape): shape is the declared shape (the
\* slot 'shape'), the value buffer is zeros(shape) plus the scalar value and
\* vshape is the shape of that buffer
ComputeVar(vtype, value, shape) ==
    [cls |-> "ComputeVar", vtype |-> vtype, value |-> value, shape |-> shape,
     vshape |-> shape]

\* ComputeOp(name, func, expr, shape): the value buffer is zeros(shape)
ComputeOp(shape) ==
    [cls |-> "ComputeOp", vtype |-> NoKey, value |-> 0, shape |-> shape,
     vshape |-> shape]

\* ndarray.size of a buffer of the given shape
RECURSIVE Elements(_)
Elements(shape) == IF shape = <<>> THEN 1 ELSE Head(shape) * Elements(Tail(shape))

\* ComputeNode.reshape: self._value = self.value.reshape(shape); numpy raises
\* ValueError when the number of elements differs.  No other slot is written.
reshape(obj, shape) ==
    IF Elements(shape) # Elements(obj.vshape)
    THEN [obj |-> obj, err |-> "ValueError"]
    ELSE [obj |-> [obj EXCEPT !.vshape = shape], err |-> NoErr]

\* ComputeNode.squeeze: self._value = self.value.squeeze(axis=None), which
\* drops every axis of length one
squeeze(obj) ==
    [obj |-> [obj EXCEPT !.vshape = SelectSeq(obj.vshape, LAMBDA k : k # 1)],
     err |-> NoErr]

\* add_var without _generate_unique_label: the label is used as it is given
add_var_given_label(g, label, value, vtype, shape) ==
    Return(add_node(g, label, ComputeVar(vtype, value, shape)), label)

\* ComputeGraph.add_var; val is the returned name
add_var(g, label, value, vtype, shape) ==
    LET unique_label == generate_unique_label(g, label)
    IN Return(add_node(g, unique_label, ComputeVar(vtype, value, shape)), unique_label)

\* the loop of add_op over enumerate(inputs)
RECURSIVE AddEdges(_, _, _, _)
AddEdges(g, inputs, i, target) ==
    IF i >= Len(inputs) THEN g
    ELSE AddEdges(add_edge(g, inputs[i + 1], target, i), inputs, i + 1, target)

\* ComputeGraph.add_op; val is the returned name
add_op(g, inputs, label, shape) ==
    LET unique_label == generate_unique_label(g, label)
        g1 == add_node(g, unique_label, ComputeOp(shape))
    IN Return(AddEdges(g1, inputs, 0, unique_label), unique_label)

LogEntry(op, label, name) ==
    [op |-> op, label |-> label, name |-> name, before |-> NodeSet(Graph)]

AddVar(label, value, vtype) ==
    LET r == add_var(Graph, label, value, vtype, <<>>)
    IN /\ Len(log) < MaxCalls
       /\ SetGraph(r.g)
       /\ last' = Result("add_var", label, r)
       /\ log' = Append(log, LogEntry("add_var", label, r.val))
       /\ UNCHANGED <<var_updates, eq_nodes, pack>>

AddOp(inputs, label) ==
    LET r == add_op(Graph, inputs, label, <<>>)
    IN /\ Len(log) < MaxCalls
       /\ SetGraph(r.g)
       /\ last' = [op |-> "add_op", arg |-> inputs, err |-> r.err, val |-> r.val]
       /\ log' = Append(log, LogEntry("add_op", label, r.val))
       /\ UNCHANGED <<var_updates, eq_nodes, pack>>

\* labels and input lists of the calls
Labels == {Name(<<"a">>, <<>>), Name(<<"a">>, <<0>>), Name(<<"b">>, <<>>)}

InputLists ==
    {<<Name(<<"a">>, <<>>)>>,
     <<Name(<<"a">>, <<0>>)>>,
     <<Name(<<"a">>, <<>>), Name(<<"b">>, <<>>)>>,
     <<Name(<<"b">>, <<>>), Name(<<"b">>, <<>>)>>}

Init ==
    /\ nodes = <<>>
    /\ order = <<>>
    /\ edges = {}
    /\ var_updates = EmptyUpdates
    /\ eq_nodes = {}
    /\ last = [op |-> "init", arg |-> 0, err |-> NoErr, val |-> 0]
    /\ pre = Graph
    /\ log = <<>>
    /\ pack = NoPack

Next ==
    \/ \E label \in Labels, vtype \in {"constant", "input"} : AddVar(label, 2, vtype)
    \/ \E inputs \in InputLists, label \in Labels : AddOp(inputs, label)

Spec == Init /\ [][Next]_vars

\* ------------------------------------------------------ graphs to prune
\* a finished dependency graph in which the nodes of S are protected: each is registered as an algebraic record n <- n
RECURSIVE Protect(_, _)
Protect(S, reg) ==
    IF S = {} THEN reg
    ELSE LET n == CHOOSE x \in S : \A y \in S : x <= y
         IN Protect(S \ {n}, add_var_update(reg.var_updates, reg.eq_nodes, n, n, FALSE))

InitPrune ==
    /\ \E E \in SUBSET {p \in Ids \X Ids : p[1] # p[2]} :
         /\ Acyclic(Ids, E)
         /\ \E vt \in [Ids -> Kinds] :
              /\ nodes = Supplied(E, vt).nodes
              /\ order = Supplied(E, vt).order
              /\ edges = Supplied(E, vt).edges
    /\ \E S \in SUBSET Ids :
         /\ var_updates = Protect(S, [var_updates |-> EmptyUpdates,
                                      eq_nodes |-> {}]).var_updates
         /\ eq_nodes = Protect(S, [var_updates |-> EmptyUpdates, eq_nodes |-> {}]).eq_nodes
    /\ last = [op |-> "init", arg |-> 0, err |-> NoErr, val |-> 0]
    /\ pre = Graph
    /\ log = <<>>
    /\ pack = NoPack

NextPrune == Prune

SpecPrune == InitPrune /\ [][NextPrune]_vars

\* ------------------------------------------------- the equation registry
\* add_var_update on a new graph, any number of times up to MaxCalls; the
\* log keeps each call with the registry as the call found it
RegNames == {"x", "u"}

RecordEquation(var, update, differential_equation) ==
    /\ Len(log) < MaxCalls
    /\ var_updates' = add_var_update(var_updates, eq_nodes, var, update,
                                     differential_equation).var_updates
    /\ eq_nodes' = add_var_update(var_updates, eq_nodes, var, update,
                                  differential_equation).eq_nodes
    /\ last' = [op |-> "add_var_update", arg |-> <<var, update, differential_equation>>,
                err |-> NoErr, val |-> 0]
    /\ log' = Append(log, [op |-> "add_var_update", var_updates |-> var_updates,
                           eq_nodes |-> eq_nodes])
    /\ pre' = Graph
    /\ UNCHANGED <<nodes, order, edges, pack>>

NextReg ==
    \E var \in RegNames, update \in RegNames, de \in BOOLEAN :
        RecordEquation(var, update, de)

SpecReg == Init /\ [][NextReg]_vars

\* ------------------------------------------------- the sum = a + b graph
\* constants a = 2 and b = 3 feed the operation sum; c is a variable, or an
\* operation over sum; the record c <- sum is registered.  The node
\* dictionaries carry the keys the methods read, and the edges are those the
\* loop of add_op adds for the input list.
SumNodes == <<"a", "b", "sum", "c">>

LeafValue == [n \in {"a", "b"} |-> IF n = "a" THEN 2 ELSE 3]

SumInputLists == {<<"a", "b">>, <<"b", "a">>, <<"a", "a">>}

SumGraph(inputs, ksum, kc, cin) ==
    AddEdges(AddEdges(MkGraph([n \in Range(SumNodes) |->
                                  CASE n = "sum" -> AttrDict(ksum, TRUE, 0, Range(inputs))
                                    [] n = "c" -> AttrDict(kc, cin # <<>>, 0, Range(cin))
                                    [] OTHER -> AttrDict("constant", FALSE, LeafValue[n], {})],
                              SumNodes, {}),
                      inputs, 0, "sum"),
             cin, 0, "c")

InitSum ==
    /\ \E inputs \in SumInputLists, ksum \in {"constant", "state_var"}, kc \in Kinds,
          cin \in {<<>>, <<"sum">>}, de \in BOOLEAN :
         /\ nodes = SumGraph(inputs, ksum, kc, cin).nodes
         /\ order = SumGraph(inputs, ksum, kc, cin).order
         /\ edges = SumGraph(inputs, ksum, kc, cin).edges
         /\ var_updates = add_var_update(EmptyUpdates, {}, "c", "sum", de).var_updates
         /\ eq_nodes = add_var_update(EmptyUpdates, {}, "c", "sum", de).eq_nodes
         /\ log = <<[op |-> "add_op", label |-> "sum", inputs |-> inputs]>>
    /\ last = [op |-> "init", arg |-> 0, err |-> NoErr, val |-> 0]
    /\ pre = Graph
    /\ pack = NoPack

NextSum ==
    \/ \E n \in NodeSet(Graph) : EvalNode(n)
    \/ \E n \in NodeSet(Graph) : EvalSubgraph(n)
    \/ \E n \in NodeSet(Graph) : NodeToExpr(n)
    \/ EvalGraph
    \/ Prune
    \/ Compile

SpecSum == InitSum /\ [][NextSum]_vars

\* ------------------------------------------------------- claims, SpecGraph
RECURSIVE UpstreamFrom(_, _, _)
UpstreamFrom(g, S, d) ==
    LET more == S \cup UNION {PredSet(g, m) : m \in S}
    IN IF d = 0 \/ more = S THEN S ELSE UpstreamFrom(g, more, d - 1)

\* the transitive inputs of n
Upstream(g, n) == UpstreamFrom(g, PredSet(g, n), Depth(g))

\* n is an operation whose whole upstream is constants and operations over
\* constants
ConstantRooted(g, n) ==
    /\ n \in NodeSet(g)
    /\ g.nodes[n].func
    /\ PredSet(g, n) # {}
    /\ \A m \in Upstream(g, n) :
         IF PredSet(g, m) = {}
         THEN g.nodes[m].vtype = "constant" /\ g.nodes[m].has_value /\ ~g.nodes[m].func
         ELSE g.nodes[m].func

Removed == NodeSet(pre) \ NodeSet(Graph)

\* C1: prune() never removes a node that is the variable side or the update
\* side of an equation record.
C1_PruneKeepsEndpoints ==
    last.op = "prune" => Removed \cap eq_nodes = {}

\* C2: folding an operation node whose whole upstream is constant returns the
\* value that evaluating the node on the unfolded graph returns, and leaves
\* the node without predecessors.
C2_FoldEqualsEvaluate ==
    (last.op = "eval_subgraph" /\ ConstantRooted(pre, last.arg)) =>
        /\ last.err = NoErr
        /\ last.val = eval_node(pre, last.arg, Depth(pre)).val
        /\ PredSet(Graph, last.arg) = {}

\* C3: a second prune() right after a prune() changes neither the node set,
\* nor the edge set, nor a node value.
C3_PruneIdempotent ==
    last.op = "prune" => prune(Graph, eq_nodes).g = Graph

\* C10: neither constant folding (eval_subgraph, also as called from compile
\* and eval_graph) nor pruning deletes an endpoint of an equation record.
C10_FoldAndPruneKeepEndpoints ==
    last.op \in {"eval_subgraph", "eval_graph", "compile", "prune"} =>
        Removed \cap eq_nodes = {}

\* ---------------------------------------------------------- state packing
\* ComputeGraph.get_var: self.nodes[var]['node']
HasVar(g, var) == var \in NodeSet(g) /\ g.nodes[var].node # NoObj

\* ComputeGraph._process_var_update.  After get_var, line 456 reads
\* self.graph.eval_node: self.graph is the attribute dictionary of the
\* MultiDiGraph, which has no eval_node, so the call raises AttributeError
\* before any shape is looked at.
process_var_update(g, var, update) ==
    IF ~HasVar(g, var) THEN Raise(g, "KeyError")
    ELSE Raise(g, "AttributeError")

\* the packing loop of to_func and the allocation of the state vector.  The
\* loop stops at the first record, in _process_var_update or, had that
\* returned, at line 300, which compares the shape tuple with an integer.
\* Without DE records the backend's concat gets an empty list and add_var is
\* called without a shape: concat_err is the exception of whichever raises.
PackStateVars(g, vu, concat_err) ==
    IF vu.DEs = <<>> THEN [g |-> g, err |-> concat_err, pack |-> NoPack]
    ELSE LET r == process_var_update(g, vu.DEs[1][1], vu.DEs[1][2])
         IN [g |-> r.g, err |-> IF r.err # NoErr THEN r.err ELSE "TypeError",
             pack |-> NoPack]

ProcessVarUpdate(i) ==
    LET r == process_var_update(Graph, var_updates.DEs[i][1], var_updates.DEs[i][2])
    IN /\ SetGraph(r.g)
       /\ last' = Result("process_var_update", i, r)
       /\ UNCHANGED <<var_updates, eq_nodes, log, pack>>

\* ------------------------------------------------------------- synthesis
\* what the code generator was handed: the statements added by
\* add_code_line, the argument list and the names the algebraic pass defined
Synth(err, func_args, defined_vars, lines) ==
    [err |-> err, func_args |-> func_args, defined_vars |-> defined_vars, lines |-> lines]

\* ComputeGraph._generate_update_equations.  Its first statement, line 379,
\* reads self.graph.var_updates: self.graph is the attribute dictionary of
\* the MultiDiGraph, so the call raises AttributeError before a record is
\* translated, an equation is ordered or a statement is added.
generate_update_equations(g, vu, differential_equations, indices) ==
    Synth("AttributeError", <<>>, <<>>, <<>>)

\* the first loop of _to_str, over zip(state_vec_indices, var_updates['DEs']):
\* one statement per pair that extracts the variable from y; the name y is
\* written in the format string of line 351
ExtractLines(vu, state_vec_indices) ==
    [i \in 1..(IF Len(state_vec_indices) < Len(vu.DEs)
               THEN Len(state_vec_indices) ELSE Len(vu.DEs)) |->
        [stmt |-> "extract", var |-> vu.DEs[i][1], idx |-> state_vec_indices[i],
         vec |-> Name(<<"y">>, <<>>)]]

\* assignment of func_args in _to_str: func_args1 + func_args2 without every
\* occurrence of the names in delete_args1 + delete_args2
FuncArgs(func_args1, func_args2, delete_args) ==
    SeqFilter(func_args1 \o func_args2, Range(func_args1 \o func_args2) \ Range(delete_args))

\* the DE pass of _to_str: the call passes no indices
ToStrDEs(g, vu, lines, alg) ==
    IF generate_update_equations(g, vu, TRUE, <<>>).err # NoErr
    THEN Synth(generate_update_equations(g, vu, TRUE, <<>>).err, <<>>, <<>>,
               lines \o generate_update_equations(g, vu, TRUE, <<>>).lines)
    ELSE Synth(NoErr,
               FuncArgs(generate_update_equations(g, vu, TRUE, <<>>).func_args,
                        alg.func_args,
                        alg.defined_vars \o
                            generate_update_equations(g, vu, TRUE, <<>>).defined_vars),
               alg.defined_vars,
               lines \o generate_update_equations(g, vu, TRUE, <<>>).lines)

\* ComputeGraph._to_str: the extraction statements, the algebraic pass, the
\* DE pass, the argument list
to_str(g, vu, state_vec_indices) ==
    IF generate_update_equations(g, vu, FALSE, <<>>).err # NoErr
    THEN Synth(generate_update_equations(g, vu, FALSE, <<>>).err, <<>>, <<>>,
               ExtractLines(vu, state_vec_indices)
                   \o generate_update_equations(g, vu, FALSE, <<>>).lines)
    ELSE ToStrDEs(g, vu,
                  ExtractLines(vu, state_vec_indices)
                      \o generate_update_equations(g, vu, FALSE, <<>>).lines,
                  generate_update_equations(g, vu, FALSE, <<>>))

GenerateUpdateEquations(differential_equations, indices) ==
    /\ last' = [op |-> "generate_update_equations", arg |-> differential_equations,
                err |-> generate_update_equations(Graph, var_updates,
                                                  differential_equations, indices).err,
                val |-> generate_update_equations(Graph, var_updates,
                                                  differential_equations, indices).func_args]
    /\ pack' = [pack EXCEPT !.emitted =
                    generate_update_equations(Graph, var_updates,
                                              differential_equations, indices).lines]
    /\ pre' = Graph
    /\ UNCHANGED <<nodes, order, edges, var_updates, eq_nodes, log>>

ToStr(state_vec_indices) ==
    /\ last' = [op |-> "to_str", arg |-> state_vec_indices,
                err |-> to_str(Graph, var_updates, state_vec_indices).err,
                val |-> to_str(Graph, var_updates, state_vec_indices).func_args]
    /\ pack' = [pack EXCEPT !.emitted = to_str(Graph, var_updates, state_vec_indices).lines]
    /\ pre' = Graph
    /\ UNCHANGED <<nodes, order, edges, var_updates, eq_nodes, log>>

\* what a to_func call leaves behind: the graph, the exception, the locals of
\* the packing loop, the stages it entered in order, and the function it
\* returned (the lines that build one are commented out, 324-335)
FuncRun(g, err, pk, stages) ==
    [g |-> g, err |-> err, pack |-> pk, stages |-> stages, func |-> FALSE]

\* line 306 of to_func: the derivative vector is added under the label 'dy';
\* val is the pair of names the two add_var calls returned
AllocateDy(y) ==
    Return(add_var(y.g, Name(<<"dy">>, <<>>), 0, "state_var", <<>>).g,
           <<y.val, add_var(y.g, Name(<<"dy">>, <<>>), 0, "state_var", <<>>).val>>)

\* lines 305-306 of to_func: the state vector is added under the label 'y',
\* then the derivative vector
AllocateStateVec(g) ==
    AllocateDy(add_var(g, Name(<<"y">>, <<>>), 0, "state_var", <<>>))

\* to_func from line 315, after _to_str returned s on the graph with the two
\* vectors added (a): _generate_func_head is a method the class does not
\* define
ToFuncHead(a, s) ==
    IF s.err # NoErr
    THEN FuncRun(a.g, s.err,
                 [NoPack EXCEPT !.allocated = TRUE, !.keys = a.val, !.emitted = s.lines],
                 <<"compile", "pack", "to_str">>)
    ELSE FuncRun(a.g, "AttributeError",
                 [NoPack EXCEPT !.allocated = TRUE, !.keys = a.val, !.emitted = s.lines],
                 <<"compile", "pack", "to_str", "generate_func_head">>)

\* to_func from line 309, after the packing loop and the allocation left p
ToFuncPacked(p, vu) ==
    IF p.err # NoErr
    THEN FuncRun(p.g, p.err, NoPack, <<"compile", "pack">>)
    ELSE ToFuncHead(AllocateStateVec(p.g),
                    to_str(AllocateStateVec(p.g).g, vu, p.pack.indices))

\* to_func from line 290, after compile() left c
ToFuncCompiled(c, vu, concat_err) ==
    IF c.err # NoErr
    THEN FuncRun(c.g, c.err, NoPack, <<"compile">>)
    ELSE ToFuncPacked(PackStateVars(c.g, vu, concat_err), vu)

\* to_func with the exception of compile() swallowed: packing goes on from
\* the graph as compile() left it
to_func_past_compile(g, vu, eq, concat_err) ==
    ToFuncPacked(PackStateVars(compile(g, eq).g, vu, concat_err), vu)

\* ComputeGraph.to_func: compile() runs first, then the packing loop and the
\* allocation, then _to_str (line 309), then _generate_func_head (line 315).
\* No statement catches an exception.
to_func(g, vu, eq, concat_err) == ToFuncCompiled(compile(g, eq), vu, concat_err)

ToFunc(concat_err) ==
    LET r == to_func(Graph, var_updates, eq_nodes, concat_err)
    IN /\ SetGraph(r.g)
       /\ last' = [op |-> "to_func", arg |-> 0, err |-> r.err,
                   val |-> [stages |-> r.stages, func |-> r.func]]
       /\ pack' = r.pack
       /\ UNCHANGED <<var_updates, eq_nodes, log>>

\* graphs with DE records, assembled through add_var, add_op and
\* add_var_update: state variable i is x_i; its update is another state
\* variable or an operation over one
Shapes == {<<>>, <<1>>, <<2>>}

StateVar(i) == Name(<<"x">>, <<i>>)

UpdateOp(i) == Name(<<"f">>, <<i>>)

RECURSIVE BuildVars(_, _, _, _)
BuildVars(g, i, k, shape) ==
    IF i > k THEN g
    ELSE BuildVars(add_var(g, StateVar(i), i, "state_var", shape[i]).g, i + 1, k, shape)

RECURSIVE BuildOps(_, _, _, _, _, _)
BuildOps(g, i, k, is_op, src, shape) ==
    IF i > k THEN g
    ELSE IF is_op[i]
         THEN BuildOps(add_op(g, <<StateVar(src[i])>>, UpdateOp(i), shape[i]).g,
                       i + 1, k, is_op, src, shape)
         ELSE BuildOps(g, i + 1, k, is_op, src, shape)

UpdateOf(i, is_op, src) == IF is_op[i] THEN UpdateOp(i) ELSE StateVar(src[i])

\* one assembly: the number of records, the shapes of the variables and of
\* the operations, what each update is, and which records are differential
Assemblies ==
    UNION {[k : {k}, shape : [1..k -> Shapes], rshape : [1..k -> Shapes],
            is_op : [1..k -> BOOLEAN], src : [1..k -> 1..k],
            de : [1..k -> BOOLEAN]] : k \in 0..MaxDEs}

\* the add_var_update calls of an assembly, in the order of the variables
RECURSIVE Register(_, _, _)
Register(c, i, reg) ==
    IF i > c.k THEN reg
    ELSE Register(c, i + 1,
                  add_var_update(reg.var_updates, reg.eq_nodes, StateVar(i),
                                 UpdateOf(i, c.is_op, c.src), c.de[i]))

Assembled(c) ==
    BuildOps(BuildVars(MkGraph(<<>>, <<>>, {}), 1, c.k, c.shape),
             1, c.k, c.is_op, c.src, c.rshape)

InitPack ==
    /\ \E c \in {x \in Assemblies : \A i \in 1..x.k : ~x.is_op[i] => x.rshape[i] = <<>>} :
         /\ nodes = Assembled(c).nodes
         /\ order = Assembled(c).order
         /\ edges = Assembled(c).edges
         /\ var_updates = Register(c, 1, [var_updates |-> EmptyUpdates,
                                          eq_nodes |-> {}]).var_updates
         /\ eq_nodes = Register(c, 1, [var_updates |-> EmptyUpdates,
                                       eq_nodes |-> {}]).eq_nodes
    /\ last = [op |-> "init", arg |-> 0, err |-> NoErr, val |-> 0]
    /\ pre = Graph
    /\ log = <<>>
    /\ pack = NoPack

NextPack ==
    \/ \E i \in DOMAIN var_updates.DEs : ProcessVarUpdate(i)
    \/ \E e \in {"ValueError", "TypeError"} : ToFunc(e)
    \/ Compile
    \/ \E ind \in {<<>>, [i \in DOMAIN var_updates.DEs |-> i - 1]} : ToStr(ind)
    \/ \E de \in BOOLEAN, ind \in {<<>>, [i \in DOMAIN var_updates.DEs |-> i - 1]} :
         GenerateUpdateEquations(de, ind)

SpecPack == InitPack /\ [][NextPack]_vars

\* ------------------------------------------------- the compile request
\* a graph grown from empty by add_var and add_op, in which a variable may
\* be labelled y, with at most MaxEqs records over the name a, under to_func
FuncInputLists ==
    {<<Name(<<"a">>, <<>>)>>, <<Name(<<"a">>, <<>>), Name(<<"b">>, <<>>)>>}

NextFunc ==
    \/ \E label \in Labels \cup {Name(<<"y">>, <<>>)} : AddVar(label, 2, "state_var")
    \/ \E inputs \in FuncInputLists, label \in Labels : AddOp(inputs, label)
    \/ \E de \in BOOLEAN :
         AddVarUpdate(Name(<<"a">>, <<>>), Name(<<"a">>, <<>>), de)
    \/ \E e \in {"ValueError", "TypeError"} : ToFunc(e)

SpecFunc == Init /\ [][NextFunc]_vars

\* ------------------------------------------------------ the node objects
\* variables added with a declared shape, and the two methods that change
\* the shape of a node's value buffer
Reshape(n, shape) ==
    /\ HasVar(Graph, n)
    /\ nodes' = [nodes EXCEPT ![n].node = reshape(nodes[n].node, shape).obj]
    /\ last' = [op |-> "reshape", arg |-> n, err |-> reshape(nodes[n].node, shape).err,
                val |-> 0]
    /\ pre' = Graph
    /\ UNCHANGED <<order, edges, var_updates, eq_nodes, log, pack>>

Squeeze(n) ==
    /\ HasVar(Graph, n)
    /\ nodes' = [nodes EXCEPT ![n].node = squeeze(nodes[n].node).obj]
    /\ last' = [op |-> "squeeze", arg |-> n, err |-> squeeze(nodes[n].node).err,
                val |-> 0]
    /\ pre' = Graph
    /\ UNCHANGED <<order, edges, var_updates, eq_nodes, log, pack>>

AddShapedVar(label, shape) ==
    /\ Len(log) < MaxCalls
    /\ SetGraph(add_var(Graph, label, 0, "state_var", shape).g)
    /\ last' = Result("add_var", label, add_var(Graph, label, 0, "state_var", shape))
    /\ log' = Append(log, LogEntry("add_var", label,
                                   add_var(Graph, label, 0, "state_var", shape).val))
    /\ UNCHANGED <<var_updates, eq_nodes, pack>>

NextNode ==
    \/ \E shape \in Shapes : AddShapedVar(Name(<<"x">>, <<>>), shape)
    \/ \E n \in NodeSet(Graph), shape \in Shapes : Reshape(n, shape)
    \/ \E n \in NodeSet(Graph) : Squeeze(n)

SpecNode == Init /\ [][NextNode]_vars

\* ------------------------------------------------------------ claims, Spec
Digits == <<"0", "1", "2", "3", "4", "5", "6", "7", "8", "9">>

\* the name label + "_" + k as a string
WithSuffix(label, k) ==
    IF label.num = <<>> THEN Name(label.stem, <<k>>)
    ELSE Name(Append(label.stem, Digits[label.num[1] + 1]), <<k>>)

\* the add_var calls of the log that inserted this label, in call order
InsertionsOf(label) ==
    SeqFilter([i \in DOMAIN log |-> i],
              {i \in DOMAIN log : log[i].op = "add_var" /\ log[i].label = label})

\* insertions of one label into a graph that holds no other colliding name
\* return label, label_0, label_1
NamesInOrder(label) ==
    LET ins == InsertionsOf(label)
    IN /\ (Len(ins) >= 2 /\ label \notin log[ins[1]].before
                         /\ WithSuffix(label, 0) \notin log[ins[2]].before)
          => /\ log[ins[1]].name = label
             /\ log[ins[2]].name = WithSuffix(label, 0)
       /\ (Len(ins) >= 3 /\ label \notin log[ins[1]].before
                         /\ WithSuffix(label, 0) \notin log[ins[2]].before
                         /\ WithSuffix(label, 1) \notin log[ins[3]].before)
          => log[ins[3]].name = WithSuffix(label, 1)

\* C6: add_op with an input name that is no node of the graph fails with
\* UnknownInputError, adds nothing and creates no node for the missing name.
C6_UnknownInputRejected ==
    (last.op = "add_op" /\ Range(last.arg) \ NodeSet(pre) # {}) =>
        /\ last.err = "UnknownInputError"
        /\ Graph = pre

\* C8 as stated: two insertions of any label return label and label_0, a
\* third returns label_1.
C8_SecondIsLabel0 == \A label \in Labels : NamesInOrder(label)

\* C8 amended: for a label whose last '_'-separated segment is not an
\* integer, two insertions return label and label_0 and a third label_1.
C8_SecondIsLabel0_NoIntSuffix ==
    \A label \in Labels : label.num = <<>> => NamesInOrder(label)

C8_Witness ==
    \E label \in Labels :
        /\ label.num = <<>>
        /\ Len(InsertionsOf(label)) = 3
        /\ log[InsertionsOf(label)[1]].name = label
        /\ log[InsertionsOf(label)[2]].name = WithSuffix(label, 0)
        /\ log[InsertionsOf(label)[3]].name = WithSuffix(label, 1)

\* C9: add_var and add_op return a name that no node had before the call,
\* and leave the record of every node that was there unchanged.
C9_FreshNameFrame ==
    last.op \in {"add_var", "add_op"} =>
        /\ last.val \notin NodeSet(pre)
        /\ \A n \in NodeSet(pre) : n \in NodeSet(Graph) /\ nodes[n] = pre.nodes[n]

\* a call whose label, ending in an integer, was taken together with the
\* next name tried
C9_Witness ==
    /\ last.op \in {"add_var", "add_op"}
    /\ log[Len(log)].label.num # <<>>
    /\ log[Len(log)].label \in NodeSet(pre)
    /\ last.val.num[1] >= log[Len(log)].label.num[1] + 2

\* -------------------------------------------------------- claims, SpecPack
\* zero-dimensional shapes count as (1,)
Coerce(shape) == IF shape = <<>> THEN <<1>> ELSE shape

RECURSIVE Size(_)
Size(shape) == IF shape = <<>> THEN 1 ELSE Head(shape) * Size(Tail(shape))

LhsShape(i) == nodes[var_updates.DEs[i][1]].node.shape

RhsShape(i) == nodes[var_updates.DEs[i][2]].node.shape

LhsValue(i) == [j \in 1..Size(LhsShape(i)) |-> nodes[var_updates.DEs[i][1]].node.value]

RECURSIVE Offset(_)
Offset(i) == IF i = 1 THEN 0 ELSE Offset(i - 1) + Size(LhsShape(i - 1))

\* the records can be packed: there is one, and every variable and update is
\* a node whose shapes agree after coercion
Packable ==
    /\ var_updates.DEs # <<>>
    /\ \A i \in DOMAIN var_updates.DEs :
         /\ HasVar(Graph, var_updates.DEs[i][1])
         /\ HasVar(Graph, var_updates.DEs[i][2])
         /\ Coerce(LhsShape(i)) = Coerce(RhsShape(i))

RECURSIVE Flatten(_)
Flatten(vals) == IF vals = <<>> THEN <<>> ELSE Head(vals) \o Flatten(Tail(vals))

\* C4: after state packing the index ranges of the DE variables follow
\* registry order, start at 0, are contiguous and disjoint and cover 0..N-1,
\* N the sum of the sizes; two scalar variables get indices 0 and 1.
C4_ContiguousRanges ==
    (last.op = "to_func" /\ Packable) =>
        /\ last.err = NoErr
        /\ pack.old_state_vars = DictKeys(var_updates.DEs)
        /\ DOMAIN pack.indices = DOMAIN var_updates.DEs
        /\ \A i \in DOMAIN pack.indices :
             pack.indices[i] = <<Offset(i), Offset(i) + Size(LhsShape(i))>>
        /\ pack.idx = Offset(Len(var_updates.DEs) + 1)

\* C5: splitting the concatenated state vector by the assigned index ranges
\* gives back the value of every DE variable.
C5_PackSplitRoundTrip ==
    (last.op = "to_func" /\ Packable) =>
        /\ last.err = NoErr
        /\ DOMAIN pack.indices = DOMAIN var_updates.DEs
        /\ \A i \in DOMAIN pack.indices :
             SubSeq(Flatten(pack.variables), pack.indices[i][1] + 1, pack.indices[i][2])
                 = LhsValue(i)

\* C7: processing a DE record fails with the shape error exactly when the
\* coerced shapes of the two sides differ (a scalar variable with a scalar
\* right-hand side is accepted), and it fails before the state vector is
\* allocated and before a statement is emitted.
C7_ShapeErrorIffMismatch ==
    (/\ last.op = "process_var_update"
     /\ HasVar(Graph, var_updates.DEs[last.arg][1])
     /\ HasVar(Graph, var_updates.DEs[last.arg][2])) =>
        /\ (Coerce(LhsShape(last.arg)) = Coerce(RhsShape(last.arg))) <=> (last.err = NoErr)
        /\ last.err \in {NoErr, "ShapeMismatchError", "ValueError"}
        /\ ~pack.allocated
        /\ pack.emitted = <<>>

\* ------------------------------------------------------- claims, SpecPrune
Isolated(g, n) == in_degree(g, n) = 0 /\ out_degree(g, n) = 0

\* C17: after _prune() returns, the graph holds no unprotected node without
\* incoming and outgoing edges and no unprotected constant-kind node without
\* outgoing edges.
C17_NothingPrunableLeft ==
    (last.op = "prune" /\ last.err = NoErr) =>
        \A n \in NodeSet(Graph) \ eq_nodes :
            /\ ~Isolated(Graph, n)
            /\ ~(nodes[n].vtype = "constant" /\ out_degree(Graph, n) = 0)

\* a _prune() that removed a constant and an unconnected input and kept a
\* protected unconnected node
C17_Witness ==
    /\ last.op = "prune"
    /\ last.err = NoErr
    /\ \E n \in Removed : pre.nodes[n].vtype = "constant"
    /\ \E n \in Removed : pre.nodes[n].vtype = "input" /\ Isolated(pre, n)
    /\ \E n \in NodeSet(Graph) \cap eq_nodes : Isolated(Graph, n)

\* --------------------------------------------------------- claims, SpecReg
\* the pair of the last call is a record of the mapping
Recorded(mapping) == <<last.arg[1], last.arg[2]>> \in Range(mapping)

\* both names of the last call are protected, and so is every name that was
\* protected when an earlier call was made
Protected ==
    /\ {last.arg[1], last.arg[2]} \subseteq eq_nodes
    /\ \A i \in DOMAIN log : log[i].eq_nodes \subseteq eq_nodes

\* C16 as stated: after add_var_update(var, update, differential_equation)
\* the pair var -> update is in the differential mapping exactly when
\* differential_equation is true and otherwise in the algebraic mapping,
\* both names are protected, and a protected name stays protected.
C16_RecordedExactlyByTag ==
    last.op = "add_var_update" =>
        /\ Recorded(var_updates.DEs) <=> last.arg[3]
        /\ ~last.arg[3] => Recorded(var_updates.nonDEs)
        /\ Protected

\* C16 amended: after the call the pair is in the mapping the flag selects
\* and the other mapping is as the call found it (a pair recorded earlier
\* under the other flag stays there); both names are protected, and a
\* protected name stays protected.
C16_RecordedUnderTag ==
    last.op = "add_var_update" =>
        /\ last.arg[3] => /\ Recorded(var_updates.DEs)
                          /\ var_updates.nonDEs = log[Len(log)].var_updates.nonDEs
        /\ ~last.arg[3] => /\ Recorded(var_updates.nonDEs)
                           /\ var_updates.DEs = log[Len(log)].var_updates.DEs
        /\ Protected

\* a pair recorded as differential and then as algebraic, after a record of
\* another variable
C16_Witness ==
    /\ last.op = "add_var_update"
    /\ ~last.arg[3]
    /\ Recorded(var_updates.DEs)
    /\ Recorded(var_updates.nonDEs)
    /\ eq_nodes # {last.arg[1], last.arg[2]}

\* ---------------------------------------------- claims, synthesis (SpecPack)
\* the emitted statements of one kind, in emission order
Stmts(kind) == SelectSeq(pack.emitted, LAMBDA l : l.stmt = kind)

\* the nodes whose symbols the translated expression of update can hold
Refs(update) == {update} \cup Upstream(Graph, update)

AlgLhs == Range(DictKeys(var_updates.nonDEs))

\* two algebraic records each of which reads the variable of the other
CyclicAlgebraic ==
    \E i, j \in DOMAIN var_updates.nonDEs :
        /\ i # j
        /\ var_updates.nonDEs[i][1] \in Refs(var_updates.nonDEs[j][2])
        /\ var_updates.nonDEs[j][1] \in Refs(var_updates.nonDEs[i][2])

\* two records whose right-hand sides read the same node
SharedLeaf ==
    \E r1, r2 \in Range(var_updates.DEs) \cup Range(var_updates.nonDEs) :
        r1 # r2 /\ Refs(r1[2]) \cap Refs(r2[2]) # {}

\* every DE variable is a scalar, so that record i has index i - 1
ScalarLayout ==
    /\ Packable
    /\ \A i \in DOMAIN var_updates.DEs : Size(LhsShape(i)) = 1
    /\ last.arg = [i \in DOMAIN var_updates.DEs |-> i - 1]

\* C13: _to_str emits one statement per algebraic record, ordered so that no
\* right-hand side reads the variable of an algebraic statement emitted
\* later, and a name read but defined by no algebraic equation is a
\* function argument.
C13_AlgebraicOrder ==
    (last.op = "to_str" /\ var_updates.nonDEs # <<>> /\ ~CyclicAlgebraic) =>
        /\ last.err = NoErr
        /\ Len(Stmts("assign")) = Len(var_updates.nonDEs)
        /\ {<<l.var, l.update>> : l \in Range(Stmts("assign"))} = Range(var_updates.nonDEs)
        /\ \A i, j \in DOMAIN Stmts("assign") :
             i < j => Stmts("assign")[j].var \notin Refs(Stmts("assign")[i].update)
        /\ \A l \in Range(Stmts("assign")) :
             \A m \in Refs(l.update) :
                 (PredSet(Graph, m) = {} /\ m \notin AlgLhs) => m \in Range(last.val)

\* C14: when algebraic records depend on each other cyclically, synthesis
\* fails with UnresolvedDependencyOrderError and emits no update statement.
C14_CyclicRejected ==
    (last.op = "to_str" /\ CyclicAlgebraic) =>
        /\ last.err = "UnresolvedDependencyOrderError"
        /\ Stmts("assign") = <<>>
        /\ Stmts("dy") = <<>>

\* C15: for a graph with DE records that passes state packing, _to_str emits
\* exactly one dy statement per DE record, in index order, each writing the
\* translated update of the record at the index assigned to its variable.
C15_DEEmission ==
    (last.op = "to_str" /\ ScalarLayout) =>
        /\ last.err = NoErr
        /\ Stmts("dy") = [i \in DOMAIN var_updates.DEs |->
                             [stmt |-> "dy", idx |-> last.arg[i],
                              update |-> var_updates.DEs[i][2]]]

\* C18: the argument list _to_str returns holds no name twice, also when
\* several equations read the same leaf.
C18_NoDuplicateArgs ==
    (last.op = "to_str" /\ SharedLeaf) =>
        /\ last.err = NoErr
        /\ \A i, j \in DOMAIN last.val : i # j => last.val[i] # last.val[j]

\* C19: no variable that an emitted algebraic statement assigns is in the
\* argument list _to_str returns.
C19_DefinedNotArgument ==
    (last.op = "to_str" /\ var_updates.nonDEs # <<>>) =>
        /\ last.err = NoErr
        /\ Len(Stmts("assign")) = Len(var_updates.nonDEs)
        /\ \A l \in Range(Stmts("assign")) : l.var \notin Range(last.val)

\* --------------------------------------------------------- claims, SpecSum
\* the value of the operation on the values of its inputs, one argument for
\* each position of the input list
SumExpected == Func([i \in DOMAIN log[1].inputs |-> LeafValue[log[1].inputs[i]]])

EvaluatesTo(g, n, v) ==
    eval_node(g, n, Depth(g)).err = NoErr /\ eval_node(g, n, Depth(g)).val = v

\* sum still has one edge for each position of its input list
Unfolded(g) ==
    /\ Range(log[1].inputs) \cup {"sum"} \subseteq NodeSet(g)
    /\ in_degree(g, "sum") = Len(log[1].inputs)

Folded(g) == "sum" \in NodeSet(g) /\ PredSet(g, "sum") = {}

\* a and b feed sum, c is a variable and c <- sum is an algebraic record
SumScenario ==
    /\ Range(log[1].inputs) = {"a", "b"}
    /\ var_updates.nonDEs = <<<<"c", "sum">>>>
    /\ "c" \in NodeSet(pre)
    /\ ~pre.nodes["c"].func

\* C11: with constants a = 2 and b = 3 feeding sum and the algebraic record
\* c <- sum, after constant folding and prune() (compile(), or _prune() on
\* the folded graph) evaluating the equation gives the value of sum on a
\* and b, and the nodes of the graph are those the record names.
C11_ScenarioFoldPrune ==
    (/\ SumScenario
     /\ \/ last.op = "compile" /\ Unfolded(pre)
        \/ last.op = "prune" /\ Folded(pre)) =>
        /\ last.err = NoErr
        /\ NodeSet(Graph) = eq_nodes
        /\ EvaluatesTo(Graph, "c", SumExpected) \/ EvaluatesTo(Graph, "sum", SumExpected)

\* C12: eval_node of an operation applies its function to one argument for
\* each input position, in position order, also when one node is given at
\* several positions.
C12_OneArgumentPerPosition ==
    (last.op = "eval_node" /\ last.arg = "sum" /\ Unfolded(pre)) =>
        /\ last.err = NoErr
        /\ last.val = SumExpected

\* the constant-kind and input-kind leaves among n and its transitive inputs
LeafArgs(g, n) ==
    {m \in Upstream(g, n) \cup {n} :
        PredSet(g, m) = {} /\ g.nodes[m].vtype \in {"constant", "input"}}

\* C20: the free-argument names _node_to_expr returns for a node n of an
\* acyclic graph are exactly the constant-kind and input-kind leaves in the
\* transitive upstream of n (n itself when it is such a leaf).
C20_FreeArgsAreLeaves ==
    last.op = "node_to_expr" =>
        /\ last.err = NoErr
        /\ Range(last.val.args) = LeafArgs(pre, last.arg)

\* ------------------------------------------------------ claims, SpecFunc
\* the stages of a compile request in the order of the statements of to_func:
\* fold and prune (compile), state packing (the packing loop and the
\* allocation), translation, ordering and emission (_to_str), the function
\* head
Pipeline == <<"compile", "pack", "to_str", "generate_func_head">>

PackErrors ==
    {PackStateVars(compile(pre, eq_nodes).g, var_updates, e).err :
        e \in {"ValueError", "TypeError"}}

C22_ShapeIsBufferShape ==
    \A n \in NodeSet(Graph) :
        HasVar(Graph, n) => nodes[n].node.shape = nodes[n].node.vshape

\* ------------------------------------------------- claims, SpecSum (2)
\* the value a node of the sum graph was created with
CreatedValue(n) == IF n \in DOMAIN LeafValue THEN LeafValue[n] ELSE 0

\* C23: the stored value of a constant-kind variable node is the same after
\* any sequence of evaluate, fold, prune and compile operations as it was
\* when the node was created, for as long as the node is in the graph.
C23_ConstantsKeepValue ==
    \A n \in NodeSet(Graph) :
        (nodes[n].vtype = "constant" /\ ~nodes[n].func) =>
            nodes[n].has_value /\ nodes[n].value = CreatedValue(n)

\* sum was folded, which wrote its value and removed its input a, and the
\* constant b that is no input of sum is still in the graph
C23_Witness ==
    /\ last.op = "eval_subgraph"
    /\ last.arg = "sum"
    /\ last.err = NoErr
    /\ nodes["sum"].value # CreatedValue("sum")
    /\ "b" \in NodeSet(Graph)
    /\ "a" \notin NodeSet(Graph)

\* C24: after compile() the graph holds no operation node that still has
\* predecessors and whose whole transitive input lineage is constants, at
\* any depth of the graph.
C24_CompileFoldsAll ==
    last.op = "compile" => \A n \in NodeSet(Graph) : ~ConstantRooted(Graph, n)

\* ----------------------------------------------- claims, SpecPrune (2)
\* the edges into m
InEdges(g, m) == {e \in g.edges : e[2] = m}

\* C25: prune() never removes an input of an operation node that survives
\* it: every node left in the graph after prune() has the incoming edges it
\* had before the call.
C25_PruneKeepsInputs ==
    last.op = "prune" =>
        \A m \in NodeSet(Graph) : InEdges(Graph, m) = InEdges(pre, m)

\* ----------------------------------------------- claims, SpecGraph (2)
\* what evaluate(m) gives on the graph g: the exception and the value
Evaluated(g, m) ==
    <<eval_node(g, m, Depth(g)).err, eval_node(g, m, Depth(g)).val>>

\* C26: folding n (eval_subgraph) does not change the result of evaluating
\* any other node that is still in the graph after the fold, also when that
\* node and n share an ancestor.
C26_FoldKeepsOtherResults ==
    last.op = "eval_subgraph" =>
        \A m \in NodeSet(Graph) \ {last.arg} : Evaluated(Graph, m) = Evaluated(pre, m)

\* ----------------------------------------------------- claims, Spec (2)
\* C27: after any sequence of add_var and add_op calls, with any labels and
\* any input names, the dependency graph has no directed cycle and no
\* self-loop.
C27_NoCycle ==
    Acyclic(NodeSet(Graph), {<<e[1], e[2]>> : e \in edges})

\* ----------------------------------------------- claims, SpecGraph (3)
\* C28: on every finite acyclic graph, diamonds included, eval_node,
\* eval_subgraph, remove_subgraph (as called by prune) and prune run to
\* completion: they never recurse without end and never read or remove a
\* node that has already been deleted.
C28_RunToCompletion ==
    last.op \in {"eval_node", "eval_subgraph", "prune"} =>
        last.err \notin {"RecursionError", "NetworkXError", "RuntimeError"}

\* ------------------------------------------------- claims, SpecFunc (2)
\* C29: the statements to_func emits read the state from, and write the
\* derivatives to, the names under which to_func allocated the state vector
\* and the derivative vector, also when the graph already holds a node
\* labelled y or dy.
C29_AllocatedNames ==
    last.op = "to_func" =>
        /\ pack.allocated
        /\ \A l \in Range(Stmts("extract")) : l.vec = pack.keys[1]
        /\ \A l \in Range(Stmts("dy")) : l.vec = pack.keys[2]

\* ------------------------------------------------- claims, SpecSum (3)
\* C30: evaluate(n) (eval_node, eval_nodes) leaves the graph unchanged: the
\* node set, the edge set, every node's stored value, the equation registry
\* and the protected set are the same after the call as before it.
C30_EvaluateLeavesGraph ==
    [][last'.op = "eval_node" =>
          /\ UNCHANGED <<nodes, order, edges, var_updates, eq_nodes>>
          /\ \A n, m \in NodeSet(Graph) :
                eval_nodes(Graph, <<n, m>>, Depth(Graph)).g = Graph]_vars

\* c = func(sum) was evaluated through sum down to the leaves a and b, with
\* the value of the whole expression returned and every node still there
C30_Witness ==
    /\ last.op = "eval_node"
    /\ last.arg = "c"
    /\ last.err = NoErr
    /\ PredSet(Graph, "c") = {"sum"}
    /\ Unfolded(Graph)
    /\ last.val = Func(<<SumExpected>>)

====
